---- MODULE Spec2Model ----
(***************************************************************************)
(* DailySpark: the recommendation / allocation core (src/recommender.py)   *)
(* and the Budget Enforcer (src/app.py).                                   *)
(*                                                                         *)
(* Five state machines share the variables below:                         *)
(*   SpecAlloc   - one call of allocate_budgets, one loop iteration a step *)
(*   SpecEnforce - one call of _enforce_budget, one plan item a step       *)
(*   SpecScore   - the exploit branch's scoring loop over a pool           *)
(*   SpecPlan    - one call of build_plan_for_today                        *)
(*   SpecReplan  - repeated calls of build_plan_for_today while the        *)
(*                 application appends events to the log                   *)
(* Floats are modelled as exact rationals (numerator over a positive       *)
(* denominator); Python's round() is round-half-to-even.                   *)
(***************************************************************************)
EXTENDS Integers, Sequences, FiniteSets, TLC

VARIABLES
    total_minutes,   \* argument total_minutes (allocate_budgets, build_plan_for_today, _enforce_budget)
    interests,       \* argument interests: sequence of [name, weight]
    base,            \* allocate_budgets: the list `base`, as a sequence of [interest, budget]
    diff,            \* allocate_budgets: diff
    k,               \* allocate_budgets: loop variable k
    alloc_pc,        \* allocate_budgets: "call", "loop", "returned", "raised"
    error,           \* the exception that left the call, or "none"
    plan,            \* _enforce_budget: argument plan, a sequence of items
    pos,             \* _enforce_budget: position of the walk in plan
    cum,             \* _enforce_budget: cum
    kept,            \* _enforce_budget: kept
    enf_pc,          \* _enforce_budget: "walk", "returned"
    df,              \* the catalog handed to the planning core: a sequence of rows
    seen_ids,        \* argument seen_ids
    difficulty_pref, \* argument difficulty_pref: "none", "easier", "harder"
    budget,          \* pick_for_interest: argument budget
    arm_stats,       \* pick_for_interest: argument arm_stats, arm -> [n, sum_reward]
    scores,          \* pick_for_interest: the list `scores` of the exploit branch
    score_pc,        \* exploit branch: "call", "scored"
    events,          \* the event log state/events.jsonl, as _load_events reads it
    calls,           \* number of calls of build_plan_for_today made
    prev,            \* the call of build_plan_for_today before the latest one
    last,            \* the latest call of build_plan_for_today and what it returned
    stats_last,      \* the latest call of _build_arm_stats: the log it read and what it returned
    stats_prev,      \* the call of _build_arm_stats before the latest one
    pick_order,      \* pick_for_interest: the pool rows in the order the walk takes them
    pick_pos,        \* pick_for_interest: position of the walk in that order
    pick_total,      \* pick_for_interest: total
    chosen,          \* pick_for_interest: chosen
    pick_explore,    \* pick_for_interest: explore
    pick_pc,         \* pick_for_interest: "call", "walk", "returned", "forced" (returned with the force-included item)
    history,         \* prefs["history"]: the lists done_ids, skipped_ids and saved_ids
    streak,          \* prefs["streak"]
    last_done_date,  \* prefs["last_done_date"]: <<>> for None, <<d>> for day d
    today,           \* datetime.date.today(), as a day number
    done_days        \* the days on which update_streak_on_done was called

allocVars == <<base, diff, k, alloc_pc, error>>

enfVars == <<plan, pos, cum, kept, enf_pc>>

scoreVars == <<budget, arm_stats, scores, score_pc>>

argVars == <<df, seen_ids, difficulty_pref>>

vars == <<total_minutes, interests, base, diff, k, alloc_pc, error,
          plan, pos, cum, kept, enf_pc,
          df, seen_ids, difficulty_pref, budget, arm_stats, scores, score_pc,
          events, calls, prev, last,
          stats_last, stats_prev,
          pick_order, pick_pos, pick_total, chosen, pick_explore, pick_pc,
          history, streak, last_done_date, today, done_days>>

planVars == <<events, calls, prev, last>>

appVars == <<history, streak, last_done_date, today, done_days>>

pickVars == <<pick_order, pick_pos, pick_total, chosen, pick_explore, pick_pc>>

statsVars == <<stats_last, stats_prev>>

----------------------------------------------------------------------------
(* Bounds *)

MaxNegMinutes == 2
MaxMinutes == 6
MaxInterests == 3
MaxWeight == 2
MaxPlanLen == 4
MaxNegDuration == 1
MaxDuration == 3
MaxBudget == 2
MaxCatalog == 3
MaxPlanInterests == 2
MaxReplanMinutes == 2
MaxNegPlanMinutes == 1
MaxPlanMinutes == 4
MaxEvents == 1
MaxArmEvents == 2
MaxStatsEvents == 3
MaxPickPool == 3
MaxPickBudget == 4
MaxAppEvents == 2
MaxStreakEvents == 3
MaxDay == 3

----------------------------------------------------------------------------
(* Arithmetic helpers *)

Max(a, b) == IF a >= b THEN a ELSE b

Min(a, b) == IF a <= b THEN a ELSE b

Abs(a) == IF a >= 0 THEN a ELSE 0 - a

RECURSIVE SumSeq(_)
SumSeq(s) == IF s = <<>> THEN 0 ELSE Head(s) + SumSeq(Tail(s))

\* Python round(num/den) for den > 0: nearest integer, ties to the even one.
RoundHalfEven(num, den) ==
    LET fl  == num \div den
        rem == num % den
    IN  IF 2 * rem > den THEN fl + 1
        ELSE IF 2 * rem < den THEN fl
        ELSE IF fl % 2 = 0 THEN fl ELSE fl + 1

----------------------------------------------------------------------------
(* allocate_budgets *)

InterestNames == <<"a", "b", "A", "c">>

\* i.get("weight", 1), then max(0.0, float(.))
GetWeight(i) == Max(0, IF "weight" \in DOMAIN i THEN i.weight ELSE 1)

Weights(ints) == [j \in 1..Len(ints) |-> GetWeight(ints[j])]

\* wsum = sum(weights) or 1.0
Wsum(ints) == IF SumSeq(Weights(ints)) = 0 THEN 1 ELSE SumSeq(Weights(ints))

\* lines 24-28: budget = int(round(total * (w / wsum))), floored at 1
BaseBudgets(total, ints) ==
    [j \in 1..Len(ints) |->
        [interest |-> ints[j].name,
         budget   |-> Max(1, RoundHalfEven(total * GetWeight(ints[j]), Wsum(ints)))]]

Budgets(b) == [j \in 1..Len(b) |-> b[j].budget]

AllocDiff(total, b) == total - SumSeq(Budgets(b))

AllocStep(d) == IF d > 0 THEN 1 ELSE 0 - 1

\* The loop body with the guard dropped (budgets may fall below 1).
RedistributeUnguarded(b, kk, step) ==
    LET idx == (kk % Len(b)) + 1
    IN  [b EXCEPT ![idx].budget = @ + step]

\* lines 33-35: one iteration of the redistribution loop, for Len(b) > 0
Redistribute(b, kk, step) ==
    LET idx == (kk % Len(b)) + 1
    IN  IF b[idx].budget + step >= 1
        THEN [b EXCEPT ![idx].budget = @ + step]
        ELSE b

RECURSIVE RedistributeFrom(_, _, _, _)
RedistributeFrom(b, kk, n, step) ==
    IF kk >= n THEN b
    ELSE RedistributeFrom(Redistribute(b, kk, step), kk + 1, n, step)

\* The value returned by allocate_budgets; the call raises ZeroDivisionError
\* (k % len(base)) when interests is empty and total_minutes is not 0.
AllocRaises(total, ints) == Len(ints) = 0 /\ total # 0

allocate_budgets(total, ints) ==
    LET b == BaseBudgets(total, ints)
        d == AllocDiff(total, b)
    IN  RedistributeFrom(b, 0, Abs(d), AllocStep(d))

InterestLists ==
    UNION {[1..n -> [name : {InterestNames[1]}, weight : 0..MaxWeight]] : n \in 0..MaxInterests}

\* names by position, so that the names of a list are pairwise distinct
Named(ints) == [j \in 1..Len(ints) |-> [ints[j] EXCEPT !.name = InterestNames[((j - 1) % Len(InterestNames)) + 1]]]

AllocIdle ==
    /\ base = <<>>
    /\ diff = 0
    /\ k = 0
    /\ alloc_pc = "idle"
    /\ error = "none"

EnforceIdle ==
    /\ plan = <<>>
    /\ pos = 0
    /\ cum = 0
    /\ kept = <<>>
    /\ enf_pc = "idle"

ArgsIdle ==
    /\ df = <<>>
    /\ seen_ids = {}
    /\ difficulty_pref = "none"

PlanIdle ==
    /\ events = <<>>
    /\ calls = 0
    /\ prev = <<>>
    /\ last = <<>>

ScoreIdle ==
    /\ budget = 0
    /\ arm_stats = <<>>
    /\ scores = <<>>
    /\ score_pc = "idle"

StatsIdle ==
    /\ stats_last = <<>>
    /\ stats_prev = <<>>

PickIdle ==
    /\ pick_order = <<>>
    /\ pick_pos = 0
    /\ pick_total = 0
    /\ chosen = <<>>
    /\ pick_explore = FALSE
    /\ pick_pc = "idle"

AppIdle ==
    /\ history = <<>>
    /\ streak = 0
    /\ last_done_date = <<>>
    /\ today = 0
    /\ done_days = {}

AllocInit ==
    /\ AppIdle
    /\ PickIdle
    /\ StatsIdle
    /\ EnforceIdle
    /\ ArgsIdle
    /\ ScoreIdle
    /\ PlanIdle
    /\ total_minutes \in (0 - MaxNegMinutes)..MaxMinutes
    /\ interests \in {Named(ints) : ints \in InterestLists}
    /\ base = <<>>
    /\ diff = 0
    /\ k = 0
    /\ alloc_pc = "call"
    /\ error = "none"

\* lines 22-31
AllocBase ==
    /\ alloc_pc = "call"
    /\ base' = BaseBudgets(total_minutes, interests)
    /\ diff' = AllocDiff(total_minutes, base')
    /\ k' = 0
    /\ alloc_pc' = "loop"
    /\ UNCHANGED <<appVars, pickVars, statsVars, total_minutes, interests, error, enfVars, argVars, scoreVars, planVars>>

\* lines 32-35, one iteration
AllocLoop ==
    /\ alloc_pc = "loop"
    /\ k < Abs(diff)
    /\ Len(base) > 0
    /\ base' = Redistribute(base, k, AllocStep(diff))
    /\ k' = k + 1
    /\ UNCHANGED <<appVars, pickVars, statsVars, total_minutes, interests, diff, alloc_pc, error, enfVars, argVars, scoreVars, planVars>>

\* line 33 with len(base) = 0
AllocDivideByZero ==
    /\ alloc_pc = "loop"
    /\ k < Abs(diff)
    /\ Len(base) = 0
    /\ alloc_pc' = "raised"
    /\ error' = "ZeroDivisionError"
    /\ UNCHANGED <<appVars, pickVars, statsVars, total_minutes, interests, base, diff, k, enfVars, argVars, scoreVars, planVars>>

\* line 36
AllocReturn ==
    /\ alloc_pc = "loop"
    /\ k = Abs(diff)
    /\ alloc_pc' = "returned"
    /\ UNCHANGED <<appVars, pickVars, statsVars, total_minutes, interests, base, diff, k, error, enfVars, argVars, scoreVars, planVars>>

AllocNext == AllocBase \/ AllocLoop \/ AllocDivideByZero \/ AllocReturn

SpecAlloc == AllocInit /\ [][AllocNext]_vars

----------------------------------------------------------------------------
(* _enforce_budget (src/app.py) *)

\* int(it.get("duration_min", 0))
EnforceDur(it) == IF "duration_min" \in DOMAIN it THEN it.duration_min ELSE 0

SumDur(items) == SumSeq([j \in 1..Len(items) |-> EnforceDur(items[j])])

\* line 254 without the test for zero
IsSkippedNegativeOnly(dur) == dur < 0

\* line 254: if dur <= 0: continue
IsSkipped(dur) == dur <= 0

\* the item alone is compared with the budget, not the running sum
FitsItemOnly(c, dur, total) == dur <= total

\* line 256: if cum + dur <= total_minutes
Fits(c, dur, total) == c + dur <= total

\* the walk stops one minute short of the budget
ExactMatchOneShort(c, total) == c + 1 >= total

\* line 260: if cum == total_minutes: break
ExactMatch(c, total) == c = total

\* an item of a plan handed to the enforcer: its id is its position
PlanItems(j) ==
    {[id |-> j, duration_min |-> d] : d \in (0 - MaxNegDuration)..MaxDuration} \cup {[id |-> j]}

\* the o-th member of PlanItems(j); the last one carries no duration_min
PlanItemOf(j, o) ==
    IF o = MaxNegDuration + MaxDuration + 1 THEN [id |-> j]
    ELSE [id |-> j, duration_min |-> o - MaxNegDuration]

\* the plans of length n: position j holds one member of PlanItems(j)
PlanLists(n) ==
    {[j \in 1..n |-> PlanItemOf(j, c[j])] :
        c \in [1..n -> 0..(MaxNegDuration + MaxDuration + 1)]}

EnforceInit ==
    /\ AppIdle
    /\ PickIdle
    /\ StatsIdle
    /\ AllocIdle
    /\ ArgsIdle
    /\ ScoreIdle
    /\ PlanIdle
    /\ interests = <<>>
    /\ total_minutes \in 0..MaxMinutes
    /\ \E n \in 0..MaxPlanLen : plan \in PlanLists(n)
    /\ pos = 1
    /\ cum = 0
    /\ kept = <<>>
    /\ enf_pc = "walk"

\* lines 253-255: a non-positive duration, `continue` (the exact-match test is not reached)
EnforceSkip ==
    /\ enf_pc = "walk"
    /\ pos <= Len(plan)
    /\ IsSkipped(EnforceDur(plan[pos]))
    /\ pos' = pos + 1
    /\ UNCHANGED <<appVars, pickVars, statsVars, cum, kept, enf_pc, plan, total_minutes, interests, allocVars, argVars, scoreVars, planVars>>

\* lines 256-261: the item fits and is kept; break on an exact match
EnforceKeep ==
    /\ enf_pc = "walk"
    /\ pos <= Len(plan)
    /\ ~IsSkipped(EnforceDur(plan[pos]))
    /\ Fits(cum, EnforceDur(plan[pos]), total_minutes)
    /\ kept' = Append(kept, plan[pos])
    /\ cum' = cum + EnforceDur(plan[pos])
    /\ pos' = pos + 1
    /\ enf_pc' = IF ExactMatch(cum', total_minutes) THEN "returned" ELSE "walk"
    /\ UNCHANGED <<appVars, pickVars, statsVars, plan, total_minutes, interests, allocVars, argVars, scoreVars, planVars>>

\* lines 256-261: the item does not fit; break if cum already equals the budget
EnforcePass ==
    /\ enf_pc = "walk"
    /\ pos <= Len(plan)
    /\ ~IsSkipped(EnforceDur(plan[pos]))
    /\ ~Fits(cum, EnforceDur(plan[pos]), total_minutes)
    /\ pos' = pos + 1
    /\ enf_pc' = IF ExactMatch(cum, total_minutes) THEN "returned" ELSE "walk"
    /\ UNCHANGED <<appVars, pickVars, statsVars, cum, kept, plan, total_minutes, interests, allocVars, argVars, scoreVars, planVars>>

\* line 262: the loop is exhausted
EnforceReturn ==
    /\ enf_pc = "walk"
    /\ pos > Len(plan)
    /\ enf_pc' = "returned"
    /\ UNCHANGED <<appVars, pickVars, statsVars, pos, cum, kept, plan, total_minutes, interests, allocVars, argVars, scoreVars, planVars>>

EnforceNext == EnforceSkip \/ EnforceKeep \/ EnforcePass \/ EnforceReturn

SpecEnforce == EnforceInit /\ [][EnforceNext]_vars

----------------------------------------------------------------------------
(* Scoring: _fit_duration_score, _arm_key_from_row, _score_item_base,      *)
(* _apply_bandit_bonus, and the scoring loop of the exploit branch.        *)
(*                                                                         *)
(* Units: quality_score in hundredths, rewards in tenths.  With            *)
(* B = max(1, budget), a base score is an integer number of 1/(2000*B),    *)
(* and a final score is a rational [num, den] in the same unit, den being  *)
(* the n of the item's arm (1 when the arm has no statistics).             *)

\* str.lower() on the strings of the model
Lower(str) ==
    CASE str = "A" -> "a"
      [] str = "B" -> "b"
      [] str = "X" -> "x"
      [] str = "Advanced" -> "advanced"
      [] str = "DONE" -> "done"
      [] OTHER -> str

BANDIT_WEIGHT == 20

\* REWARD_BY_EVENT, in tenths
REWARD_BY_EVENT == [done |-> 10, save |-> 6, skip |-> 0]

RatLE(x, y) == x.num * y.den <= y.num * x.den

RatLT(x, y) == x.num * y.den < y.num * x.den

RatEQ(x, y) == x.num * y.den = y.num * x.den

\* row.get(field, default)
RowGet(row, field, default) == IF field \in DOMAIN row THEN row[field] ELSE default

\* _arm_key_from_row: (interest, subtopic, source), lowercased
ArmKeyFromRow(row) ==
    <<Lower(RowGet(row, "interest", "")), Lower(RowGet(row, "subtopic", "")),
      Lower(RowGet(row, "source", ""))>>

\* _fit_duration_score as a numerator over B = max(1, budget)
FitDurationNum(duration, b) ==
    IF b <= 0 THEN 0
    ELSE Max(0, Max(1, b) - Abs(duration - b))

\* line 109 with the two outcomes swapped
NoveltySwapped(row, seen) == IF row.id \in seen THEN 1 ELSE 0

\* line 109: novelty = 0.0 if str(row["id"]) in seen_ids else 1.0
Novelty(row, seen) == IF row.id \in seen THEN 0 ELSE 1

\* lines 111-117: diff_fit, in tenths
DiffFit(row, pref) ==
    LET level == Lower(RowGet(row, "level", "beginner"))
    IN  IF pref = "harder"
        THEN (IF level \in {"intermediate", "advanced"} THEN 10 ELSE 3)
        ELSE IF pref = "easier"
        THEN (IF level = "beginner" THEN 10 ELSE 3)
        ELSE 7

\* lines 119-133, with interest_boost = 1.0: the base score in units of 1/(2000*B)
ScoreItemBase(row, b, seen, pref) ==
    LET quality  == RowGet(row, "quality_score", 70)
        duration == RowGet(row, "duration_min", 5)
    IN  (7 * quality + 300 * Novelty(row, seen) + 30 * DiffFit(row, pref) + 200) * Max(1, b)
        + 500 * FitDurationNum(duration, b)

\* avg_reward = sum_reward / max(1, n), in tenths
AvgReward(stat) == [num |-> stat.sum_reward, den |-> Max(1, stat.n)]

\* the bonus taken from sum_reward instead of avg_reward
ApplyBanditBonusSum(row, base_score, b, stats) ==
    LET arm == ArmKeyFromRow(row)
    IN  IF arm \notin DOMAIN stats
        THEN [num |-> base_score, den |-> 1]
        ELSE [num |-> base_score + 2 * BANDIT_WEIGHT * stats[arm].sum_reward * Max(1, b),
              den |-> 1]

\* _apply_bandit_bonus: base + BANDIT_WEIGHT * avg_reward when the arm has statistics
ApplyBanditBonus(row, base_score, b, stats) ==
    LET arm == ArmKeyFromRow(row)
    IN  IF arm \notin DOMAIN stats
        THEN [num |-> base_score, den |-> 1]
        ELSE [num |-> base_score * AvgReward(stats[arm]).den
                      + 2 * BANDIT_WEIGHT * AvgReward(stats[arm]).num * Max(1, b),
              den |-> AvgReward(stats[arm]).den]

\* lines 178-182: one entry of `scores` per pool row, in pool order
ScoreRows(pool, b, seen, pref, stats) ==
    [j \in 1..Len(pool) |->
        LET bs == ScoreItemBase(pool[j], b, seen, pref)
        IN  [final |-> ApplyBanditBonus(pool[j], bs, b, stats), base |-> bs, row |-> pool[j]]]

\* an entry also overtakes the entries of equal score the sort has placed
GoesBeforeOrTies(e, h) == RatLE(h.final, e.final)

\* reverse=True with a stable sort: an entry overtakes only a strictly smaller score
GoesBefore(e, h) == RatLT(h.final, e.final)

\* line 184: scores.sort(key=final, reverse=True), a stable sort: an entry is
\* inserted after the entries with a greater or equal final score
RECURSIVE InsertByScore(_, _)
InsertByScore(sorted, e) ==
    IF sorted = <<>> THEN <<e>>
    ELSE IF GoesBefore(e, Head(sorted)) THEN <<e>> \o sorted
    ELSE <<Head(sorted)>> \o InsertByScore(Tail(sorted), e)

RECURSIVE SortFrom(_, _, _)
SortFrom(sc, i, sorted) ==
    IF i > Len(sc) THEN sorted
    ELSE SortFrom(sc, i + 1, InsertByScore(sorted, sc[i]))

SortByScore(sc) == SortFrom(sc, 1, <<>>)

\* The pool scored under SpecScore: every combination of the attributes below.
ScoreIds == <<"1", "2">>
ScoreSources == <<"x", "y">>
ScoreLevels == <<"beginner", "Advanced">>
ScoreQualities == <<50, 90>>

ScoreDurations == <<1, 2>>

ScorePoolSize == 2 * 2 * 2 * 2 * 2

ScorePool ==
    [j \in 1..ScorePoolSize |->
        LET c == j - 1
        IN  [id            |-> ScoreIds[(c % 2) + 1],
             interest      |-> "a",
             subtopic      |-> "s",
             source        |-> ScoreSources[((c \div 2) % 2) + 1],
             level         |-> ScoreLevels[((c \div 4) % 2) + 1],
             quality_score |-> ScoreQualities[((c \div 8) % 2) + 1],
             duration_min  |-> ScoreDurations[(c \div 16) + 1]]]

ScoreArms == {<<"a", "s", "x">>, <<"a", "s", "y">>}

\* the statistics n events with rewards in {0, 6, 10} can produce
StatValues ==
    {[n |-> a + s + z, sum_reward |-> 10 * a + 6 * s] :
        <<a, s, z>> \in {t \in (0..MaxArmEvents) \X (0..MaxArmEvents) \X (0..MaxArmEvents) :
                            t[1] + t[2] + t[3] \in 1..MaxArmEvents}}

ArmStatsChoices == UNION {[D -> StatValues] : D \in SUBSET ScoreArms}

DifficultyPrefs == {"none", "easier", "harder"}

ScoreInit ==
    /\ AppIdle
    /\ PickIdle
    /\ StatsIdle
    /\ AllocIdle
    /\ EnforceIdle
    /\ PlanIdle
    /\ total_minutes = 0
    /\ interests = <<>>
    /\ df = ScorePool
    /\ seen_ids \in SUBSET {"1", "2"}
    /\ difficulty_pref \in DifficultyPrefs
    /\ budget \in 0..MaxBudget
    /\ arm_stats \in ArmStatsChoices
    /\ scores = <<>>
    /\ score_pc = "call"

\* lines 178-182
ScoreLoop ==
    /\ score_pc = "call"
    /\ scores' = ScoreRows(df, budget, seen_ids, difficulty_pref, arm_stats)
    /\ score_pc' = "scored"
    /\ UNCHANGED <<appVars, pickVars, statsVars, total_minutes, interests, budget, arm_stats, allocVars, enfVars, argVars, planVars>>

ScoreNext == ScoreLoop

SpecScore == ScoreInit /\ [][ScoreNext]_vars

----------------------------------------------------------------------------
(* _load_events / _build_arm_stats *)

\* lines 74-76: item_id -> arm key; a later row with the same id overwrites
IdToArm(d) ==
    [i \in {d[j].id : j \in 1..Len(d)} |->
        LET last_j == CHOOSE j \in 1..Len(d) :
                        d[j].id = i /\ \A j2 \in 1..Len(d) : d[j2].id = i => j2 <= j
        IN  ArmKeyFromRow(d[last_j])]

\* the test written `if not reward`, which also drops a reward of 0.0
RewardIsFalsy(event) ==
    event \notin DOMAIN REWARD_BY_EVENT \/ REWARD_BY_EVENT[event] = 0

\* lines 85-86: reward = REWARD_BY_EVENT.get(event); if reward is None
RewardIsNone(event) == event \notin DOMAIN REWARD_BY_EVENT

\* lines 79-91: the loop over the events
RECURSIVE Aggregate(_, _, _)
Aggregate(evs, id_to_arm, agg) ==
    IF evs = <<>> THEN agg
    ELSE LET ev      == Head(evs)
             item_id == RowGet(ev, "item_id", "")
             event   == Lower(RowGet(ev, "event", ""))
         IN  IF item_id \notin DOMAIN id_to_arm
             THEN Aggregate(Tail(evs), id_to_arm, agg)
             ELSE IF RewardIsNone(event)
             THEN Aggregate(Tail(evs), id_to_arm, agg)
             ELSE LET arm == id_to_arm[item_id]
                      old == IF arm \in DOMAIN agg THEN agg[arm]
                             ELSE [n |-> 0, sum_reward |-> 0]
                      new == [n |-> old.n + 1,
                              sum_reward |-> old.sum_reward + REWARD_BY_EVENT[event]]
                  IN  Aggregate(Tail(evs), id_to_arm,
                                [a \in DOMAIN agg \cup {arm} |->
                                    IF a = arm THEN new ELSE agg[a]])

\* _build_arm_stats(df), reading the event log evs (avg_reward is AvgReward)
BuildArmStats(d, evs) ==
    IF Len(evs) = 0 THEN <<>>
    ELSE Aggregate(evs, IdToArm(d), <<>>)

----------------------------------------------------------------------------
(* pick_for_interest *)

TOL_NUM == 1

TOL_DEN == 4

FloorDiv(a, b) == a \div b

CeilDiv(a, b) == 0 - ((0 - a) \div b)

\* low = max(1, floor(budget * (1 - tol)))
WindowLow(b) == Max(1, FloorDiv(b * (TOL_DEN - TOL_NUM), TOL_DEN))

\* high = max(low, ceil(budget * (1 + tol)))
WindowHigh(b) == Max(WindowLow(b), CeilDiv(b * (TOL_DEN + TOL_NUM), TOL_DEN))

\* line 153: the rows whose interest matches, case-insensitively, in df order
PoolOf(d, interest) ==
    SelectSeq(d, LAMBDA row : Lower(row.interest) = Lower(interest))

\* int(row.get("duration_min", 5))
PickDur(row) == RowGet(row, "duration_min", 5)

\* the item alone is compared with high, not the running total
FitsWindowItemOnly(total, dur, high) == dur <= high

\* lines 168 and 192: if total + dur <= high
FitsWindow(total, dur, high) == total + dur <= high

\* lines 165-172 and 189-196: the greedy walk over the ordered rows
RECURSIVE Walk(_, _, _, _, _)
Walk(rows, acc, total, low, high) ==
    IF rows = <<>> THEN acc
    ELSE LET dur == PickDur(Head(rows))
         IN  IF FitsWindow(total, dur, high)
             THEN IF total + dur >= low
                  THEN Append(acc, Head(rows))
                  ELSE Walk(Tail(rows), Append(acc, Head(rows)), total + dur, low, high)
             ELSE Walk(Tail(rows), acc, total, low, high)

\* the walk's result returned as it is, even when empty
ForceIncludeNone(acc, rows) == acc

\* lines 173-174 and 197-198: if not chosen: chosen = [first row]
ForceInclude(acc, rows) == IF acc = <<>> THEN <<rows[1]>> ELSE acc

Perms(n) == {p \in [1..n -> 1..n] : \A i, j \in 1..n : i # j => p[i] # p[j]}

\* the outcomes of random.random() < EPSILON and of pool.sample(frac=1.0)
RndOutcomes(pool) ==
    IF pool = <<>> THEN {[explore |-> FALSE, perm |-> <<>>]}
    ELSE {[explore |-> FALSE, perm |-> <<>>]}
         \cup {[explore |-> TRUE, perm |-> p] : p \in Perms(Len(pool))}

pick_for_interest(d, interest, b, seen, pref, stats, rnd) ==
    LET pool == PoolOf(d, interest)
    IN  IF pool = <<>> THEN <<>>
        ELSE IF rnd.explore
        THEN LET shuffled == [j \in 1..Len(pool) |-> pool[rnd.perm[j]]]
             IN  ForceInclude(Walk(shuffled, <<>>, 0, WindowLow(b), WindowHigh(b)), shuffled)
        ELSE LET sorted == SortByScore(ScoreRows(pool, b, seen, pref, stats))
                 rows   == [j \in 1..Len(sorted) |-> sorted[j].row]
             IN  ForceInclude(Walk(rows, <<>>, 0, WindowLow(b), WindowHigh(b)), rows)

----------------------------------------------------------------------------
(* pick_for_interest, one row of the walk a step *)

\* The rows pools are drawn from: a short item, a lower-rated one on another
\* arm, and two long items that differ in nothing but the id.
PickRows ==
    << [id |-> "1", interest |-> "a", subtopic |-> "s", source |-> "x",
        duration_min |-> 1, level |-> "beginner", quality_score |-> 90],
       [id |-> "3", interest |-> "A", subtopic |-> "s", source |-> "y",
        duration_min |-> 2, level |-> "beginner", quality_score |-> 50],
       [id |-> "4", interest |-> "a", subtopic |-> "s", source |-> "x",
        duration_min |-> 5, level |-> "beginner", quality_score |-> 90],
       [id |-> "5", interest |-> "a", subtopic |-> "s", source |-> "x",
        duration_min |-> 5, level |-> "beginner", quality_score |-> 90] >>

\* catalogs of one interest: the rows in any order, no row twice
PickCatalogs ==
    UNION {{[j \in 1..n |-> PickRows[p[j]]] :
                p \in {q \in [1..n -> 1..Len(PickRows)] :
                            \A i, j \in 1..n : i # j => q[i] # q[j]}}
           : n \in 0..MaxPickPool}

PickInterest == "a"

PickStats ==
    {<<>>, [arm \in {<<"a", "s", "y">>} |-> [n |-> 1, sum_reward |-> 10]]}

PickInit ==
    /\ AppIdle
    /\ AllocIdle
    /\ EnforceIdle
    /\ PlanIdle
    /\ StatsIdle
    /\ total_minutes = 0
    /\ interests = <<>>
    /\ df \in PickCatalogs
    /\ seen_ids \in SUBSET {"1"}
    /\ difficulty_pref = "none"
    /\ budget \in 0..MaxPickBudget
    /\ arm_stats \in PickStats
    /\ scores = <<>>
    /\ score_pc = "idle"
    /\ pick_order = <<>>
    /\ pick_pos = 0
    /\ pick_total = 0
    /\ chosen = <<>>
    /\ pick_explore = FALSE
    /\ pick_pc = "call"

\* lines 153-155: an empty pool, return []
PickEmpty ==
    /\ pick_pc = "call"
    /\ PoolOf(df, PickInterest) = <<>>
    /\ pick_pc' = "returned"
    /\ UNCHANGED <<appVars, pick_order, pick_pos, pick_total, chosen, pick_explore,
                   statsVars, total_minutes, interests,
                   allocVars, enfVars, argVars, scoreVars, planVars>>

\* lines 158-165: explore, the pool in a random order
PickExplore ==
    /\ pick_pc = "call"
    /\ LET pool == PoolOf(df, PickInterest)
       IN  /\ pool # <<>>
           /\ \E p \in Perms(Len(pool)) :
                 pick_order' = [j \in 1..Len(pool) |-> pool[p[j]]]
    /\ pick_explore' = TRUE
    /\ pick_pos' = 1
    /\ pick_total' = 0
    /\ chosen' = <<>>
    /\ pick_pc' = "walk"
    /\ UNCHANGED <<appVars, statsVars, total_minutes, interests,
                   allocVars, enfVars, argVars, scoreVars, planVars>>

\* lines 178-189: exploit, the pool scored and sorted
PickExploit ==
    /\ pick_pc = "call"
    /\ LET pool == PoolOf(df, PickInterest)
       IN  /\ pool # <<>>
           /\ scores' = SortByScore(ScoreRows(pool, budget, seen_ids, difficulty_pref, arm_stats))
    /\ pick_order' = [j \in 1..Len(scores') |-> scores'[j].row]
    /\ pick_explore' = FALSE
    /\ pick_pos' = 1
    /\ pick_total' = 0
    /\ chosen' = <<>>
    /\ pick_pc' = "walk"
    /\ UNCHANGED <<appVars, statsVars, total_minutes, interests, budget, arm_stats, score_pc,
                   allocVars, enfVars, argVars, planVars>>

\* lines 167-172 and 191-196: the row fits and is accepted; break once total >= low
PickAccept ==
    /\ pick_pc = "walk"
    /\ pick_pos <= Len(pick_order)
    /\ FitsWindow(pick_total, PickDur(pick_order[pick_pos]), WindowHigh(budget))
    /\ chosen' = Append(chosen, pick_order[pick_pos])
    /\ pick_total' = pick_total + PickDur(pick_order[pick_pos])
    /\ pick_pos' = pick_pos + 1
    /\ pick_pc' = IF pick_total' >= WindowLow(budget) THEN "returned" ELSE "walk"
    /\ UNCHANGED <<appVars, pick_order, pick_explore, statsVars, total_minutes, interests,
                   allocVars, enfVars, argVars, scoreVars, planVars>>

\* lines 168 and 192: the row does not fit
PickReject ==
    /\ pick_pc = "walk"
    /\ pick_pos <= Len(pick_order)
    /\ ~FitsWindow(pick_total, PickDur(pick_order[pick_pos]), WindowHigh(budget))
    /\ pick_pos' = pick_pos + 1
    /\ UNCHANGED <<appVars, pick_order, pick_total, chosen, pick_explore, pick_pc,
                   statsVars, total_minutes, interests,
                   allocVars, enfVars, argVars, scoreVars, planVars>>

\* lines 173-175 and 197-199: the rows are exhausted and nothing was chosen
PickForce ==
    /\ pick_pc = "walk"
    /\ pick_pos > Len(pick_order)
    /\ chosen = <<>>
    /\ chosen' = ForceInclude(chosen, pick_order)
    /\ pick_pc' = "forced"
    /\ UNCHANGED <<appVars, pick_order, pick_pos, pick_total, pick_explore,
                   statsVars, total_minutes, interests,
                   allocVars, enfVars, argVars, scoreVars, planVars>>

\* lines 175 and 199: the rows are exhausted, return chosen
PickReturn ==
    /\ pick_pc = "walk"
    /\ pick_pos > Len(pick_order)
    /\ chosen # <<>>
    /\ pick_pc' = "returned"
    /\ UNCHANGED <<appVars, pick_order, pick_pos, pick_total, chosen, pick_explore,
                   statsVars, total_minutes, interests,
                   allocVars, enfVars, argVars, scoreVars, planVars>>

PickNext ==
    PickEmpty \/ PickExplore \/ PickExploit \/ PickAccept \/ PickReject \/ PickForce \/ PickReturn

SpecPick == PickInit /\ [][PickNext]_vars

----------------------------------------------------------------------------
(* build_plan_for_today *)

RECURSIVE Concat(_)
Concat(ss) == IF ss = <<>> THEN <<>> ELSE Head(ss) \o Concat(Tail(ss))

\* seen_local surviving from the previous call
SeenLocalStale ==
    IF last.made THEN {last.unique_plan[j].id : j \in 1..Len(last.unique_plan)} ELSE {}

\* line 220: seen_local = set()
SeenLocalInit == {}

\* the plan returned without the deduplication
DedupeNone(p, seen_local) == p

\* lines 220-226: keep the first occurrence of every id
RECURSIVE Dedupe(_, _)
Dedupe(p, seen_local) ==
    IF p = <<>> THEN <<>>
    ELSE IF Head(p).id \in seen_local
         THEN Dedupe(Tail(p), seen_local)
         ELSE <<Head(p)>> \o Dedupe(Tail(p), seen_local \cup {Head(p).id})

\* The rows catalogs are drawn from.  Rows 1 and 2 share a pool ("a",
\* case-insensitively) on two arms; row 3 is longer than any window; row 4
\* repeats the id of row 1 under another interest.
CapsuleRows ==
    << [id |-> "1", interest |-> "a", subtopic |-> "s", source |-> "x",
        duration_min |-> 1, level |-> "beginner", quality_score |-> 90],
       [id |-> "2", interest |-> "A", subtopic |-> "s", source |-> "y",
        duration_min |-> 1, level |-> "Advanced", quality_score |-> 90],
       [id |-> "3", interest |-> "b", subtopic |-> "s", source |-> "x",
        duration_min |-> 5, level |-> "beginner", quality_score |-> 50],
       [id |-> "1", interest |-> "b", subtopic |-> "t", source |-> "x",
        duration_min |-> 1, level |-> "beginner", quality_score |-> 70] >>

SubCatalog(S) ==
    LET F[i \in 0..Len(CapsuleRows)] ==
            IF i = 0 THEN <<>>
            ELSE IF i \in S THEN Append(F[i - 1], CapsuleRows[i]) ELSE F[i - 1]
    IN  F[Len(CapsuleRows)]

Catalogs ==
    {SubCatalog(S) : S \in {T \in SUBSET (1..Len(CapsuleRows)) : Cardinality(T) <= MaxCatalog}}

InterestChoices ==
    {[name |-> "A", weight |-> 2], [name |-> "b", weight |-> 1], [name |-> "c", weight |-> 0]}

PlanInterestLists == UNION {[1..n -> InterestChoices] : n \in 0..MaxPlanInterests}

\* the profiles of the repeated calls: no interest, or a single one
ReplanInterestLists == {<<>>} \cup {<<c>> : c \in InterestChoices}

\* the records append_event writes (without ts)
PlanEvents ==
    {[event |-> "done", item_id |-> "2"], [event |-> "clear_saved"]}

\* the logs a single call is made on
PlanLogs == {<<>>} \cup {<<ev>> : ev \in PlanEvents} \cup {<<[event |-> "save", item_id |-> "1"]>>}

NoCall == [made |-> FALSE]

\* one call of build_plan_for_today
PlanInit ==
    /\ AppIdle
    /\ PickIdle
    /\ StatsIdle
    /\ AllocIdle
    /\ EnforceIdle
    /\ ScoreIdle
    /\ df \in Catalogs
    /\ total_minutes \in (0 - MaxNegPlanMinutes)..MaxPlanMinutes
    /\ interests \in PlanInterestLists
    /\ seen_ids \in SUBSET {"1"}
    /\ difficulty_pref \in DifficultyPrefs
    /\ events \in PlanLogs
    /\ calls = 0
    /\ prev = NoCall
    /\ last = NoCall

\* the random outcomes of one call: one per budget, in order
RECURSIVE RndSeqs(_, _)
RndSeqs(d, budgets) ==
    IF budgets = <<>> THEN {<<>>}
    ELSE {<<h>> \o t : h \in RndOutcomes(PoolOf(d, Head(budgets).interest)),
                       t \in RndSeqs(d, Tail(budgets))}

\* lines 213-218: the picks of every budget, in order
Picks(d, budgets, seen, pref, stats, rnd) ==
    [j \in 1..Len(budgets) |->
        pick_for_interest(d, budgets[j].interest, budgets[j].budget,
                          seen, pref, stats, rnd[j])]

\* build_plan_for_today returns
BuildPlan ==
    /\ error = "none"
    /\ ~AllocRaises(total_minutes, interests)
    /\ LET stats   == BuildArmStats(df, events)
           budgets == allocate_budgets(total_minutes, interests)
       IN  \E rnd \in RndSeqs(df, budgets) :
             LET picks == Picks(df, budgets, seen_ids, difficulty_pref, stats, rnd)
             IN  /\ last' = [made |-> TRUE, events |-> events, rnd |-> rnd,
                             budgets |-> budgets, picks |-> picks,
                             unique_plan |-> Dedupe(Concat(picks), SeenLocalInit)]
                 /\ prev' = last
                 /\ calls' = 1
    /\ UNCHANGED <<appVars, pickVars, statsVars, total_minutes, interests, events,
                   allocVars, enfVars, argVars, scoreVars>>

\* build_plan_for_today leaves with allocate_budgets' ZeroDivisionError
BuildPlanRaise ==
    /\ error = "none"
    /\ AllocRaises(total_minutes, interests)
    /\ error' = "ZeroDivisionError"
    /\ calls' = 1
    /\ UNCHANGED <<appVars, pickVars, statsVars, total_minutes, interests, events, prev, last,
                   base, diff, k, alloc_pc, enfVars, argVars, scoreVars>>

BuildPlanOnce == calls = 0 /\ BuildPlan

PlanNext == BuildPlanOnce \/ BuildPlanRaise

SpecPlan == PlanInit /\ [][PlanNext]_vars

\* repeated calls of build_plan_for_today with the same arguments while the
\* application appends feedback events to the log
ReplanInit ==
    /\ AppIdle
    /\ PickIdle
    /\ StatsIdle
    /\ AllocIdle
    /\ EnforceIdle
    /\ ScoreIdle
    /\ df \in Catalogs
    /\ total_minutes \in 1..MaxReplanMinutes
    /\ interests \in ReplanInterestLists
    /\ seen_ids \in SUBSET {"1"}
    /\ difficulty_pref = "none"
    /\ events = <<>>
    /\ calls = 0
    /\ prev = NoCall
    /\ last = NoCall

\* state_manager.append_event: the log grows by one record
AppendEvent ==
    /\ Len(events) < MaxEvents
    /\ \E ev \in PlanEvents : events' = Append(events, ev)
    /\ UNCHANGED <<appVars, pickVars, statsVars, total_minutes, interests, calls, prev, last,
                   allocVars, enfVars, argVars, scoreVars>>

ReplanNext == AppendEvent \/ BuildPlan \/ BuildPlanRaise

SpecReplan == ReplanInit /\ [][ReplanNext]_vars

----------------------------------------------------------------------------
(* _build_arm_stats called again and again while the log grows *)

\* a fourth item on the arm of row 1 (the key is lowercased)
StatsRow4 ==
    [id |-> "4", interest |-> "A", subtopic |-> "s", source |-> "X",
     duration_min |-> 1, level |-> "beginner", quality_score |-> 50]

\* a catalog with unique ids and two items on one arm, and the catalog in
\* which the id "1" occurs under two arms
StatsCatalogs == {SubSeq(CapsuleRows, 1, 3) \o <<StatsRow4>>, CapsuleRows}

\* records of the log: feedback on known items, a kind in capitals, a kind
\* outside the reward table, an unknown item id, a record without item_id
\* and a record without event
StatsEvents ==
    {[event |-> "done", item_id |-> "1"], [event |-> "save", item_id |-> "4"],
     [event |-> "skip", item_id |-> "2"], [event |-> "DONE", item_id |-> "1"],
     [event |-> "unsave", item_id |-> "1"], [event |-> "done", item_id |-> "9"],
     [event |-> "clear_saved"], [item_id |-> "1"]}

StatsInit ==
    /\ AppIdle
    /\ PickIdle
    /\ AllocIdle
    /\ EnforceIdle
    /\ PlanIdle
    /\ total_minutes = 0
    /\ interests = <<>>
    /\ df \in StatsCatalogs
    /\ seen_ids = {}
    /\ difficulty_pref = "none"
    /\ budget = 0
    /\ arm_stats = <<>>
    /\ scores = <<>>
    /\ score_pc = "idle"
    /\ stats_last = NoCall
    /\ stats_prev = NoCall

\* state_manager.append_event: the log grows by one record
StatsAppendEvent ==
    /\ Len(events) < MaxStatsEvents
    /\ \E ev \in StatsEvents : events' = Append(events, ev)
    /\ UNCHANGED <<appVars, pickVars, statsVars, total_minutes, interests, calls, prev, last,
                   allocVars, enfVars, argVars, scoreVars>>

\* lines 69-96: one call of _build_arm_stats(df)
StatsCall ==
    /\ arm_stats' = BuildArmStats(df, events)
    /\ stats_last' = [made |-> TRUE, log |-> events, stats |-> arm_stats']
    /\ stats_prev' = stats_last
    /\ UNCHANGED <<appVars, pickVars, total_minutes, interests, budget, scores, score_pc,
                   allocVars, enfVars, argVars, planVars>>

StatsNext == StatsAppendEvent \/ StatsCall

SpecStats == StatsInit /\ [][StatsNext]_vars

----------------------------------------------------------------------------
(* The application (src/app.py, src/state_manager.py): one run of the      *)
(* script with one button pressed, or one changed setting, is one action.  *)
(* total_minutes, interests and difficulty_pref hold prefs["minutes"],     *)
(* prefs["interests"] and prefs["difficulty_pref"], which render_today     *)
(* hands to build_plan_for_today; the date does not change within a run.   *)

\* load_capsules over the first three rows: ids as strings, interests lowercased
AppCatalog ==
    [j \in 1..3 |-> [CapsuleRows[j] EXCEPT !.interest = Lower(@)]]

AppIds == {AppCatalog[j].id : j \in 1..Len(AppCatalog)}

AppInterestNames == {"a", "b"}

\* values of the "Daily minutes" slider (steps of 5 from 5)
AppMinutes == {5, 10}

\* values of the weight input
AppWeights == {0, 1}

\* values of the difficulty radio: "Just right" (None) and "Easier"
AppDifficulties == {"none", "easier"}

\* load_prefs without a prefs file
DefaultHistory == [done_ids |-> <<>>, skipped_ids |-> <<>>, saved_ids |-> <<>>]

InList(x, list) == \E j \in 1..Len(list) : list[j] = x

\* the list is overwritten by the new id
AppendNewOverwrite(list, x) == IF InList(x, list) THEN list ELSE <<x>>

\* if x not in list: list.append(x)
AppendNew(list, x) == IF InList(x, list) THEN list ELSE Append(list, x)

\* list.remove(x) under `if x in list`: the first occurrence goes
RemoveFirst(list, x) ==
    IF ~InList(x, list) THEN list
    ELSE LET f == CHOOSE j \in 1..Len(list) :
                    list[j] = x /\ \A i \in 1..(j - 1) : list[i] # x
         IN  SubSeq(list, 1, f - 1) \o SubSeq(list, f + 1, Len(list))

\* line 273: seen = set(done_ids + skipped_ids)
SeenOf(h) ==
    {h.done_ids[j] : j \in 1..Len(h.done_ids)} \cup {h.skipped_ids[j] : j \in 1..Len(h.skipped_ids)}

\* a gap of two or more days keeps counting
StreakAfterNoReset(s, last_date, day) ==
    IF last_date = <<>> THEN 1
    ELSE IF last_date[1] = day THEN s
    ELSE s + 1

\* update_streak_on_done, lines 40-50: the new prefs["streak"]
StreakAfter(s, last_date, day) ==
    IF last_date = <<>> THEN 1
    ELSE IF last_date[1] = day THEN s
    ELSE IF last_date[1] = day - 1 THEN s + 1
    ELSE 1

\* line 421: prefs["history"]["saved_ids"].clear()
HistoryCleared(h) == [h EXCEPT !.saved_ids = <<>>]

\* _enforce_budget as a function: the kept items
RECURSIVE EnforceWalk(_, _, _, _)
EnforceWalk(p, c, kp, total) ==
    IF p = <<>> THEN kp
    ELSE LET dur  == EnforceDur(Head(p))
             fits == Fits(c, dur, total)
             c2   == IF fits THEN c + dur ELSE c
             kp2  == IF fits THEN Append(kp, Head(p)) ELSE kp
         IN  IF IsSkipped(dur) THEN EnforceWalk(Tail(p), c, kp, total)
             ELSE IF ExactMatch(c2, total) THEN kp2
             ELSE EnforceWalk(Tail(p), c2, kp2, total)

\* line 277: df[df["duration_min"] <= budget]
DfBudget == SelectSeq(df, LAMBDA row : row.duration_min <= total_minutes)

\* render_today, lines 273-304: the cards shown for one outcome of the random draws
TodayCards(rnd) ==
    LET seen    == SeenOf(history)
        stats   == BuildArmStats(DfBudget, events)
        budgets == allocate_budgets(total_minutes, interests)
        picks   == Picks(DfBudget, budgets, seen, difficulty_pref, stats, rnd)
        uplan   == Dedupe(Concat(picks), SeenLocalInit)
        unseen  == SelectSeq(uplan, LAMBDA it : it.id \notin seen)
    IN  EnforceWalk(unseen, 0, <<>>, total_minutes)

\* the ids a Today card can be shown for
TodayIds ==
    IF interests = <<>> \/ DfBudget = <<>> THEN {}
    ELSE UNION {{TodayCards(rnd)[j].id : j \in 1..Len(TodayCards(rnd))} :
                    rnd \in RndSeqs(DfBudget, allocate_budgets(total_minutes, interests))}

\* render_saved, lines 362-367: the ids a Saved card is shown for
SavedIds ==
    IF interests = <<>> THEN {}
    ELSE {i \in AppIds : InList(i, history.saved_ids)}

AppInit ==
    /\ AllocIdle
    /\ EnforceIdle
    /\ ScoreIdle
    /\ PickIdle
    /\ StatsIdle
    /\ calls = 0
    /\ prev = <<>>
    /\ last = <<>>
    /\ df = AppCatalog
    /\ seen_ids = {}
    /\ interests = <<>>
    /\ total_minutes = 20
    /\ difficulty_pref = "none"
    /\ history = DefaultHistory
    /\ streak = 0
    /\ last_done_date = <<>>
    /\ events = <<>>
    /\ today = 0
    /\ done_days = {}

\* onboarding, lines 146-159: Start with the chosen interests and minutes
OnboardingStart ==
    /\ interests = <<>>
    /\ \E picked \in {<<"a">>, <<"b">>, <<"a", "b">>, <<"b", "a">>}, m \in AppMinutes :
          /\ interests' = [j \in 1..Len(picked) |-> [name |-> picked[j], weight |-> 1]]
          /\ total_minutes' = m
    /\ UNCHANGED <<appVars, pickVars, statsVars, events, calls, prev, last,
                   allocVars, enfVars, argVars, scoreVars>>

\* the Done button of the Today card or of the Saved card of item_id
\* (lines 321-329 and 400-407)
MarkDone(item_id) ==
    /\ history' = [history EXCEPT !.done_ids = AppendNew(@, item_id),
                                  !.saved_ids = RemoveFirst(@, item_id)]
    /\ streak' = StreakAfter(streak, last_done_date, today)
    /\ last_done_date' = <<today>>
    /\ done_days' = done_days \cup {today}
    /\ events' = Append(events, [event |-> "done", item_id |-> item_id])
    /\ UNCHANGED <<today, pickVars, statsVars, total_minutes, interests, calls, prev, last,
                   allocVars, enfVars, argVars, scoreVars>>

\* render_today, lines 320-333
TodayDone ==
    /\ Len(events) < MaxAppEvents
    /\ \E item_id \in TodayIds : MarkDone(item_id)

\* render_today, lines 334-342
TodaySkip ==
    /\ Len(events) < MaxAppEvents
    /\ \E item_id \in TodayIds :
          /\ history' = [history EXCEPT !.skipped_ids = AppendNew(@, item_id)]
          /\ events' = Append(events, [event |-> "skip", item_id |-> item_id])
    /\ UNCHANGED <<streak, last_done_date, today, done_days,
                   pickVars, statsVars, total_minutes, interests, calls, prev, last,
                   allocVars, enfVars, argVars, scoreVars>>

\* the Save button of the Today card of item_id, the item not yet saved
\* (lines 344-349)
SaveItem(item_id) ==
    /\ ~InList(item_id, history.saved_ids)
    /\ history' = [history EXCEPT !.saved_ids = Append(@, item_id)]
    /\ events' = Append(events, [event |-> "save", item_id |-> item_id])
    /\ UNCHANGED <<streak, last_done_date, today, done_days,
                   pickVars, statsVars, total_minutes, interests, calls, prev, last,
                   allocVars, enfVars, argVars, scoreVars>>

\* render_today, lines 343-349
TodaySave ==
    /\ Len(events) < MaxAppEvents
    /\ \E item_id \in TodayIds : SaveItem(item_id)

\* render_saved, lines 399-408
SavedDone ==
    /\ Len(events) < MaxAppEvents
    /\ \E item_id \in SavedIds : MarkDone(item_id)

\* render_saved, lines 409-415
SavedRemove ==
    /\ Len(events) < MaxAppEvents
    /\ \E item_id \in SavedIds :
          /\ history' = [history EXCEPT !.saved_ids = RemoveFirst(@, item_id)]
          /\ events' = Append(events, [event |-> "unsave", item_id |-> item_id])
    /\ UNCHANGED <<streak, last_done_date, today, done_days,
                   pickVars, statsVars, total_minutes, interests, calls, prev, last,
                   allocVars, enfVars, argVars, scoreVars>>

\* render_saved, lines 420-424: shown only while something is saved (lines 363-365)
ClearAllSaved ==
    /\ Len(events) < MaxAppEvents
    /\ interests # <<>>
    /\ history.saved_ids # <<>>
    /\ history' = HistoryCleared(history)
    /\ events' = Append(events, [event |-> "clear_saved"])
    /\ UNCHANGED <<streak, last_done_date, today, done_days,
                   pickVars, statsVars, total_minutes, interests, calls, prev, last,
                   allocVars, enfVars, argVars, scoreVars>>

\* settings_panel, lines 163-166
ChangeMinutes ==
    /\ interests # <<>>
    /\ \E m \in AppMinutes : m # total_minutes /\ total_minutes' = m
    /\ UNCHANGED <<appVars, pickVars, statsVars, interests, events, calls, prev, last,
                   allocVars, enfVars, argVars, scoreVars>>

\* settings_panel, lines 175-183: a weight is changed
ChangeWeight ==
    /\ interests # <<>>
    /\ \E j \in 1..Len(interests), w \in AppWeights :
          /\ w # interests[j].weight
          /\ interests' = [interests EXCEPT ![j].weight = w]
    /\ UNCHANGED <<appVars, pickVars, statsVars, total_minutes, events, calls, prev, last,
                   allocVars, enfVars, argVars, scoreVars>>

\* settings_panel, lines 178-183: Remove on an interest
RemoveInterest ==
    /\ Len(events) < MaxAppEvents
    /\ interests # <<>>
    /\ \E j \in 1..Len(interests) :
          /\ interests' = SubSeq(interests, 1, j - 1) \o SubSeq(interests, j + 1, Len(interests))
          /\ events' = Append(events, [event |-> "remove_interest", interest |-> interests[j].name])
    /\ UNCHANGED <<appVars, pickVars, statsVars, total_minutes, calls, prev, last,
                   allocVars, enfVars, argVars, scoreVars>>

\* settings_panel, lines 189-211: an interest not in the list is added
AddInterest ==
    /\ Len(events) < MaxAppEvents
    /\ interests # <<>>
    /\ \E n \in AppInterestNames :
          /\ \A j \in 1..Len(interests) : interests[j].name # n
          /\ interests' = Append(interests, [name |-> n, weight |-> 1])
          /\ events' = Append(events, [event |-> "add_interest", interest |-> n])
    /\ UNCHANGED <<appVars, pickVars, statsVars, total_minutes, calls, prev, last,
                   allocVars, enfVars, argVars, scoreVars>>

\* settings_panel, lines 213-219
ChangeDifficulty ==
    /\ interests # <<>>
    /\ \E p \in AppDifficulties : p # difficulty_pref /\ difficulty_pref' = p
    /\ UNCHANGED <<appVars, pickVars, statsVars, total_minutes, interests, events, calls, prev, last,
                   df, seen_ids, allocVars, enfVars, scoreVars>>

\* settings_panel, lines 221-224
ResetOnboarding ==
    /\ interests # <<>>
    /\ interests' = <<>>
    /\ UNCHANGED <<appVars, pickVars, statsVars, total_minutes, events, calls, prev, last,
                   allocVars, enfVars, argVars, scoreVars>>

\* midnight: datetime.date.today() moves on to the next day
NextDay ==
    /\ today < MaxDay
    /\ today' = today + 1
    /\ UNCHANGED <<history, streak, last_done_date, done_days,
                   pickVars, statsVars, total_minutes, interests, events, calls, prev, last,
                   allocVars, enfVars, argVars, scoreVars>>

\* the user's actions within one day
AppNext ==
    \/ OnboardingStart
    \/ TodayDone
    \/ TodaySkip
    \/ TodaySave
    \/ SavedDone
    \/ SavedRemove
    \/ ClearAllSaved
    \/ ChangeMinutes
    \/ ChangeWeight
    \/ RemoveInterest
    \/ AddInterest
    \/ ChangeDifficulty
    \/ ResetOnboarding

SpecApp == AppInit /\ [][AppNext]_vars

\* Done on a Today card while the days pass
StreakTodayDone ==
    /\ Len(events) < MaxStreakEvents
    /\ \E item_id \in TodayIds : MarkDone(item_id)

\* Save on a Today card, which puts the item on the Saved tab
StreakTodaySave ==
    /\ Len(events) < MaxStreakEvents
    /\ \E item_id \in TodayIds : SaveItem(item_id)

\* Done on a Saved card while the days pass
StreakSavedDone ==
    /\ Len(events) < MaxStreakEvents
    /\ \E item_id \in SavedIds : MarkDone(item_id)

\* the actions that lead to update_streak_on_done, over several days
StreakNext ==
    \/ OnboardingStart
    \/ StreakTodayDone
    \/ StreakTodaySave
    \/ StreakSavedDone
    \/ NextDay

SpecStreak == AppInit /\ [][StreakNext]_vars

----------------------------------------------------------------------------
(* Properties of _enforce_budget, checked under SpecEnforce *)

EnforceRunning == enf_pc \in {"walk", "returned"}

\* C1: for every plan (any integer durations) and every total_minutes >= 0,
\* the running sum cum is <= total_minutes after every step of the walk, and
\* the durations of the kept items sum to at most total_minutes.
C1_BudgetNeverExceeded ==
    (EnforceRunning /\ total_minutes >= 0) =>
        /\ cum <= total_minutes
        /\ SumDur(kept) <= total_minutes

\* a finished walk that kept two items, passed over a positive one and met a negative one
C1_Witness ==
    /\ enf_pc = "returned"
    /\ Len(kept) >= 2
    /\ \E j \in 1..Len(plan) : EnforceDur(plan[j]) < 0
    /\ \E j \in 1..Len(plan) :
          /\ EnforceDur(plan[j]) > 0
          /\ \A i \in 1..Len(kept) : kept[i].id # j

\* C4: every kept item has 0 < duration_min <= total_minutes, kept is an
\* order-preserving subsequence of plan, and cum is the sum of the kept durations.
C4_KeptItems ==
    EnforceRunning =>
        /\ \A j \in 1..Len(kept) :
              /\ 0 < EnforceDur(kept[j])
              /\ EnforceDur(kept[j]) <= total_minutes
              /\ kept[j].id \in 1..Len(plan)
              /\ plan[kept[j].id] = kept[j]
        /\ \A i, j \in 1..Len(kept) : i < j => kept[i].id < kept[j].id
        /\ cum = SumDur(kept)

\* a finished walk that kept an item after skipping a zero-duration item and an
\* item without duration_min
C4_Witness ==
    /\ enf_pc = "returned"
    /\ \E j \in 1..Len(kept) :
          /\ \E i \in 1..(kept[j].id - 1) : "duration_min" \notin DOMAIN plan[i]
          /\ \E i \in 1..(kept[j].id - 1) :
                "duration_min" \in DOMAIN plan[i] /\ plan[i].duration_min = 0

IsKept(j) == \E i \in 1..Len(kept) : kept[i].id = j

\* C16: for every plan and total_minutes >= 0, when the walk has returned,
\* every plan item with positive duration that was not kept (passed over, or
\* never reached because of the early stop) has a duration greater than
\* total_minutes minus the returned total.
C16_EnforceMaximal ==
    (enf_pc = "returned" /\ total_minutes >= 0) =>
        \A j \in 1..Len(plan) :
            (EnforceDur(plan[j]) > 0 /\ ~IsKept(j)) =>
                EnforceDur(plan[j]) > total_minutes - cum

\* a walk that passed over an item, kept a later one, stopped on the exact
\* match and left a positive item unreached
C16_Witness ==
    /\ enf_pc = "returned"
    /\ total_minutes > 0
    /\ cum = total_minutes
    /\ pos <= Len(plan)
    /\ \E j \in pos..Len(plan) : EnforceDur(plan[j]) > 0
    /\ \E i, j \in 1..(pos - 1) :
          i < j /\ EnforceDur(plan[i]) > 0 /\ ~IsKept(i) /\ IsKept(j)

----------------------------------------------------------------------------
(* Properties of allocate_budgets, checked under SpecAlloc *)

\* C2: for a non-empty interest list and total_minutes >= the number of
\* interests, the returned budgets sum to exactly total_minutes.
C2_AllocConservation ==
    (alloc_pc = "returned" /\ Len(interests) > 0 /\ total_minutes >= Len(interests)) =>
        SumSeq(Budgets(base)) = total_minutes

\* C5: for a non-empty interest list and total_minutes > 0 the call never
\* raises, and from the base list on, at every step of the redistribution,
\* there is one budget per interest, in list order, each >= 1.
C5_AllocFloor ==
    (total_minutes > 0 /\ Len(interests) > 0) =>
        /\ alloc_pc # "raised"
        /\ error = "none"
        /\ alloc_pc \in {"loop", "returned"} =>
              /\ Len(base) = Len(interests)
              /\ \A j \in 1..Len(base) :
                    /\ base[j].interest = interests[j].name
                    /\ base[j].budget >= 1

\* a returned call with all weights zero and fewer minutes than interests
C5_Witness ==
    /\ alloc_pc = "returned"
    /\ total_minutes > 0
    /\ Len(interests) > total_minutes
    /\ \A j \in 1..Len(interests) : interests[j].weight = 0
    /\ k > 0

\* C6: a call with negative total_minutes fails with an input-validation
\* error instead of returning budgets.
C6_NegativeFailsFast ==
    total_minutes < 0 => alloc_pc # "returned"

\* the same interest list with every weight set to w
WithWeight(ints, w) == [j \in 1..Len(ints) |-> [ints[j] EXCEPT !.weight = w]]

AllWeightsZero(ints) == \A j \in 1..Len(ints) : GetWeight(ints[j]) = 0

\* C12: when every weight is 0, the call returns the same budgets, position
\* by position, as for the same total_minutes and the same list with every
\* weight set to 1.
C12_ZeroWeightsAsEqual ==
    (alloc_pc = "returned" /\ Len(interests) > 0 /\ AllWeightsZero(interests)) =>
        base = allocate_budgets(total_minutes, WithWeight(interests, 1))

----------------------------------------------------------------------------
(* Properties of _build_arm_stats, checked under SpecStats *)

\* the catalog's ids identify its items (spec section 3: Identity = id)
UniqueIds(d) == \A i, j \in 1..Len(d) : i # j => d[i].id # d[j].id

CatalogIds(d) == {d[j].id : j \in 1..Len(d)}

CatalogArms(d) == {ArmKeyFromRow(d[j]) : j \in 1..Len(d)}

\* the reward table of the claim, in tenths; kinds compare without case
RewardKinds == {"done", "save", "skip"}

KindOf(ev) == Lower(RowGet(ev, "event", ""))

RewardTenths(kind) ==
    CASE kind = "done" -> 10 [] kind = "save" -> 6 [] kind = "skip" -> 0

\* an event with a missing or unknown item id, or a kind outside the table
IsIgnored(ev, d) ==
    \/ "item_id" \notin DOMAIN ev
    \/ ev.item_id \notin CatalogIds(d)
    \/ KindOf(ev) \notin RewardKinds

\* the positions of the log whose event counts for the arm
CountedOn(log, d, arm) ==
    {i \in 1..Len(log) :
        /\ ~IsIgnored(log[i], d)
        /\ \E j \in 1..Len(d) : d[j].id = log[i].item_id /\ ArmKeyFromRow(d[j]) = arm}

RewardsOn(log, S) ==
    SumSeq([i \in 1..Len(log) |-> IF i \in S THEN RewardTenths(KindOf(log[i])) ELSE 0])

\* the events the latest call read beyond those the call before it read
AppendedSince == (Len(stats_prev.log) + 1)..Len(stats_last.log)

\* C14: for any event history and a catalog with unique ids, the result has
\* an entry exactly for the arms with a counted event (known item id, kind
\* done, save or skip); its n is the number of counted events of the arm
\* (so n >= 1) and its avg_reward the sum of their rewards over n (so within
\* 0..1); a call made after only ignored events were appended returns what
\* the call before returned, and no call raises.
C14_ArmStats ==
    (stats_last.made /\ UniqueIds(df)) =>
        /\ error = "none"
        /\ \A arm \in CatalogArms(df) \cup DOMAIN stats_last.stats :
              LET S  == CountedOn(stats_last.log, df, arm)
                  st == stats_last.stats
              IN  /\ (arm \in DOMAIN st) <=> (S # {})
                  /\ arm \in DOMAIN st =>
                        /\ st[arm].n = Cardinality(S)
                        /\ st[arm].n >= 1
                        /\ RatEQ(AvgReward(st[arm]),
                                 [num |-> RewardsOn(stats_last.log, S), den |-> Cardinality(S)])
                        /\ AvgReward(st[arm]).num >= 0
                        /\ AvgReward(st[arm]).num <= 10 * AvgReward(st[arm]).den
        /\ ( /\ stats_prev.made
             /\ \A i \in AppendedSince : IsIgnored(stats_last.log[i], df) )
           => stats_last.stats = stats_prev.stats

\* two calls on a catalog with unique ids: the first read a done and a save on
\* two items of one arm, the second read one more, ignored, event
C14_Witness ==
    /\ stats_last.made
    /\ stats_prev.made
    /\ UniqueIds(df)
    /\ AppendedSince # {}
    /\ \A i \in AppendedSince : IsIgnored(stats_last.log[i], df)
    /\ \E arm \in DOMAIN stats_last.stats :
          /\ stats_last.stats[arm].n = 2
          /\ stats_last.stats[arm].sum_reward = 16

----------------------------------------------------------------------------
(* Properties of pick_for_interest, checked under SpecPick *)

PickStarted == pick_pc \in {"walk", "returned", "forced"}

PickDone == pick_pc \in {"returned", "forced"}

\* the summed duration of the first n rows of rows
PrefixDur(rows, n) == SumSeq([j \in 1..n |-> PickDur(rows[j])])

\* the rows accepted by the walk (the force-included row was not accepted)
Accepted == IF pick_pc = "forced" THEN <<>> ELSE chosen

\* C13: in both branches, with low and high computed from the budget, the
\* running total of the accepted durations never exceeds high; the total
\* before each accepted row is < low, the walk going on only while the total
\* is < low; and the returned rows sum to more than high only when the
\* result is the single force-included row.
C13_Window ==
    PickStarted =>
        LET low  == WindowLow(budget)
            high == WindowHigh(budget)
        IN  /\ low = Max(1, (3 * budget) \div 4)
            /\ high = Max(low, (5 * budget + 3) \div 4)
            /\ pick_total = PrefixDur(Accepted, Len(Accepted))
            /\ pick_total <= high
            /\ \A j \in 1..Len(Accepted) :
                  /\ PrefixDur(Accepted, j - 1) < low
                  /\ PrefixDur(Accepted, j) <= high
            /\ pick_pc = "walk" => pick_total < low
            /\ (PickDone /\ PrefixDur(chosen, Len(chosen)) > high) =>
                  /\ pick_pc = "forced"
                  /\ Len(chosen) = 1

\* an explore walk that rejected a row, then accepted two and stopped at low
C13_Witness ==
    /\ pick_pc = "returned"
    /\ pick_explore
    /\ Len(chosen) = 2
    /\ pick_pos = 4
    /\ ~FitsWindow(0, PickDur(pick_order[1]), WindowHigh(budget))
    /\ pick_total >= WindowLow(budget)
    /\ WindowLow(budget) >= 2

\* the position of a row in the pool (the ids of a pool are distinct)
PoolIndex(row) ==
    CHOOSE j \in 1..Len(PoolOf(df, PickInterest)) : PoolOf(df, PickInterest)[j].id = row.id

\* the final score of the pool row at position j
FinalOf(j) ==
    ScoreRows(PoolOf(df, PickInterest), budget, seen_ids, difficulty_pref, arm_stats)[j].final

\* the pool position with the highest final score, the earliest among ties
TopIndex ==
    CHOOSE m \in 1..Len(PoolOf(df, PickInterest)) :
        \A j \in 1..Len(PoolOf(df, PickInterest)) :
            \/ j = m
            \/ RatLT(FinalOf(j), FinalOf(m))
            \/ (RatEQ(FinalOf(j), FinalOf(m)) /\ m < j)

\* C15: in the exploit branch the walk takes every pool row once, in
\* non-increasing order of final score, rows of equal final score in their
\* pool order; when no row fits the window the result is exactly the row with
\* the highest final score, the earliest in pool order among ties.
C15_ExploitOrder ==
    (PickStarted /\ ~pick_explore /\ pick_order # <<>>) =>
        /\ Len(pick_order) = Len(PoolOf(df, PickInterest))
        /\ \A j \in 1..Len(pick_order) :
              /\ pick_order[j] = PoolOf(df, PickInterest)[PoolIndex(pick_order[j])]
              /\ scores[j].row = pick_order[j]
              /\ scores[j].final = FinalOf(PoolIndex(pick_order[j]))
        /\ \A i, j \in 1..Len(pick_order) :
              i < j =>
                /\ RatLE(scores[j].final, scores[i].final)
                /\ RatEQ(scores[j].final, scores[i].final) =>
                      PoolIndex(pick_order[i]) < PoolIndex(pick_order[j])
        /\ pick_pc = "forced" =>
              /\ \A j \in 1..Len(pick_order) :
                    ~FitsWindow(0, PickDur(pick_order[j]), WindowHigh(budget))
              /\ chosen = <<PoolOf(df, PickInterest)[TopIndex]>>

\* an exploit walk in which nothing fitted, over a pool whose two top rows tie
\* and stand in the pool in the reverse order of their ids
C15_Witness ==
    /\ pick_pc = "forced"
    /\ ~pick_explore
    /\ Len(pick_order) >= 2
    /\ RatEQ(scores[1].final, scores[2].final)
    /\ chosen[1].id = "5"
    /\ pick_order[2].id = "4"

----------------------------------------------------------------------------
(* Properties of the application, checked under SpecApp and SpecStreak *)

RECURSIVE RunLength(_, _)
RunLength(days, d) == IF d \notin days THEN 0 ELSE 1 + RunLength(days, d - 1)

\* a step in which a Done button was handled
DoneStep ==
    /\ Len(events') = Len(events) + 1
    /\ events'[Len(events')].event = "done"

\* the streak counts the consecutive days with a Done up to the last such day
StreakCounts ==
    IF done_days = {}
    THEN streak = 0 /\ last_done_date = <<>>
    ELSE /\ last_done_date # <<>>
         /\ last_done_date[1] \in done_days
         /\ \A d \in done_days : d <= last_done_date[1]
         /\ streak >= 1
         /\ streak = RunLength(done_days, last_done_date[1])

\* C17: from streak 0 and no last_done_date, with a date that never goes
\* back, after every call of update_streak_on_done last_done_date is today
\* and streak >= 1; a further call on the same day leaves streak unchanged, a
\* call on the day after last_done_date adds exactly 1, a call after a gap of
\* two or more days sets it to 1; so the streak always is the number of
\* consecutive days with a Done ending at the last Done day.
C17_Streak ==
    /\ []StreakCounts
    /\ [][DoneStep =>
            /\ last_done_date' = <<today>>
            /\ streak' >= 1
            /\ last_done_date = <<>> => streak' = 1
            /\ last_done_date = <<today>> => streak' = streak
            /\ last_done_date = <<today - 1>> => streak' = streak + 1
            /\ (last_done_date # <<>> /\ last_done_date[1] < today - 1) => streak' = 1]_vars

\* Done on day 0, on day 1 and, after a day without, on day 3: the streak went
\* to 2 and is back at 1
C17_Witness ==
    /\ done_days = {0, 1, 3}
    /\ last_done_date = <<3>>
    /\ streak = 1

----------------------------------------------------------------------------
(* Properties of the scoring, checked under SpecScore *)

Scored == score_pc = "scored"

SameButId(r1, r2) ==
    /\ r1.quality_score = r2.quality_score
    /\ r1.duration_min = r2.duration_min
    /\ r1.level = r2.level
    /\ ArmKeyFromRow(r1) = ArmKeyFromRow(r2)

\* C8: of two pool items identical in quality, duration, level and arm, one
\* with its id in seen_ids and the other not, the seen one never has the
\* greater final score (base score plus bandit bonus).
C8_NoveltyPenalty ==
    Scored =>
        \A i, j \in 1..Len(scores) :
            ( /\ SameButId(scores[i].row, scores[j].row)
              /\ scores[i].row.id \in seen_ids
              /\ scores[j].row.id \notin seen_ids )
            => RatLE(scores[i].final, scores[j].final)

\* a scored pool with a seen item strictly below its unseen twin, on an arm with statistics
C8_Witness ==
    /\ Scored
    /\ budget > 0
    /\ \E i, j \in 1..Len(scores) :
          /\ SameButId(scores[i].row, scores[j].row)
          /\ scores[i].row.id \in seen_ids
          /\ scores[j].row.id \notin seen_ids
          /\ ArmKeyFromRow(scores[i].row) \in DOMAIN arm_stats
          /\ RatLT(scores[i].final, scores[j].final)

HasStats(e) == ArmKeyFromRow(e.row) \in DOMAIN arm_stats

AvgOf(e) == AvgReward(arm_stats[ArmKeyFromRow(e.row)])

\* C9: of two items with equal base score, (a) if both arms have statistics
\* and avg_reward a1 >= a2 then final1 >= final2; (b) an item whose arm has no
\* statistics gets exactly its base score, and (c) never outscores an
\* equal-base item whose arm has statistics; (d) an arm with only done events
\* ranks strictly above an arm with no events.
C9_BanditMonotone ==
    Scored =>
        \A i \in 1..Len(scores) :
            /\ ~HasStats(scores[i]) =>
                  scores[i].final = [num |-> scores[i].base, den |-> 1]
            /\ \A j \in 1..Len(scores) :
                  scores[i].base = scores[j].base =>
                    /\ (HasStats(scores[i]) /\ HasStats(scores[j])
                          /\ RatLE(AvgOf(scores[j]), AvgOf(scores[i])))
                        => RatLE(scores[j].final, scores[i].final)
                    /\ (~HasStats(scores[i]) /\ HasStats(scores[j]))
                        => RatLE(scores[i].final, scores[j].final)
                    /\ (~HasStats(scores[i]) /\ HasStats(scores[j])
                          /\ arm_stats[ArmKeyFromRow(scores[j].row)].sum_reward
                               = 10 * arm_stats[ArmKeyFromRow(scores[j].row)].n)
                        => RatLT(scores[i].final, scores[j].final)

\* a scored pool with two equal-base items on arms with different avg_reward,
\* the arm with the higher average having the smaller sum_reward, and an
\* equal-base item on an arm without statistics exists in another state
C9_Witness ==
    /\ Scored
    /\ \E i, j \in 1..Len(scores) :
          /\ scores[i].base = scores[j].base
          /\ HasStats(scores[i])
          /\ HasStats(scores[j])
          /\ RatLT(AvgOf(scores[j]), AvgOf(scores[i]))
          /\ arm_stats[ArmKeyFromRow(scores[i].row)].sum_reward
               < arm_stats[ArmKeyFromRow(scores[j].row)].sum_reward
          /\ RatLT(scores[j].final, scores[i].final)

----------------------------------------------------------------------------
(* Properties of build_plan_for_today, checked under SpecPlan *)

FirstOccurrences(c) == {p \in 1..Len(c) : \A q \in 1..(p - 1) : c[q].id # c[p].id}

\* C3: the returned plan has pairwise distinct ids and is the concatenation
\* of the per-interest picks, in interest-list order, without the later
\* occurrences of an id already present; first occurrences keep their order.
C3_DedupStable ==
    last.made =>
        LET c  == Concat(last.picks)
            u  == last.unique_plan
            fo == FirstOccurrences(c)
        IN  /\ \A i, j \in 1..Len(u) : i # j => u[i].id # u[j].id
            /\ Len(u) = Cardinality(fo)
            /\ \A p \in fo : u[Cardinality({q \in fo : q <= p})] = c[p]

\* a call whose picks repeat an id, the repeated occurrence standing before
\* an item that is kept
C3_Witness ==
    /\ last.made
    /\ LET c == Concat(last.picks)
       IN  \E p, q \in 1..Len(c) :
              /\ p < q
              /\ p \notin FirstOccurrences(c)
              /\ q \in FirstOccurrences(c)
              /\ last.unique_plan[Len(last.unique_plan)] = c[q]

HasPool(interest) == \E j \in 1..Len(df) : Lower(df[j].interest) = Lower(interest)

NothingFits(interest, b) ==
    \A j \in 1..Len(df) :
        Lower(df[j].interest) = Lower(interest) => df[j].duration_min > WindowHigh(b)

\* C10: the picks of an interest are empty exactly when no catalog row
\* matches the interest case-insensitively; every picked item (of the other
\* interests) appears in the plan, and the plan holds nothing else.
C10_EmptyPool ==
    last.made =>
        /\ Len(last.picks) = Len(interests)
        /\ \A j \in 1..Len(last.picks) :
              /\ (last.picks[j] = <<>>) <=> ~HasPool(interests[j].name)
              /\ \A i \in 1..Len(last.picks[j]) :
                    \E p \in 1..Len(last.unique_plan) :
                        last.unique_plan[p].id = last.picks[j][i].id
        /\ \A p \in 1..Len(last.unique_plan) :
              \E j \in 1..Len(last.picks) : \E i \in 1..Len(last.picks[j]) :
                  last.picks[j][i] = last.unique_plan[p]

\* a call with an interest without rows next to an interest explored with
\* no row fitting the window, whose forced item is in the plan
C10_Witness ==
    /\ last.made
    /\ \E j, j2 \in 1..Len(last.picks) :
          /\ last.picks[j] = <<>>
          /\ last.rnd[j2].explore
          /\ NothingFits(interests[j2].name, last.budgets[j2].budget)
          /\ Len(last.picks[j2]) = 1
          /\ last.unique_plan = last.picks[j2]

\* the same with the exploit branch
C10_WitnessExploit ==
    /\ last.made
    /\ \E j, j2 \in 1..Len(last.picks) :
          /\ last.picks[j] = <<>>
          /\ ~last.rnd[j2].explore
          /\ HasPool(interests[j2].name)
          /\ NothingFits(interests[j2].name, last.budgets[j2].budget)
          /\ Len(last.picks[j2]) = 1
          /\ last.unique_plan = last.picks[j2]

----------------------------------------------------------------------------
(* Properties of repeated calls, checked under SpecReplan (the arguments   *)
(* df, total_minutes, interests, seen_ids, difficulty_pref never change)   *)

TwoCalls == prev.made /\ last.made

====
